---- MODULE Spec2Model ----
(***************************************************************************)
(* Keycloak provisioning scripts of spooliq.                               *)
(*                                                                         *)
(*   scripts/setup_keycloak_multitenant.py  (attribute style, "multitenant")*)
(*   scripts/setup_keycloak_groups.py       (group style, "groups")        *)
(*   scripts/fix_keycloak_roles.py          (role repair, "fix_roles")     *)
(*   scripts/check_user_realm.py            (user check, "check_user")     *)
(*                                                                         *)
(* One action per remote request of a script, in the position the script   *)
(* issues it.  The realm is the remote state; the answer to every request  *)
(* is an input: the answer the realm gives by itself, or an injected       *)
(* failure (error status, network error, or a 409 because somebody else    *)
(* created the resource between the lookup and the creation request).      *)
(***************************************************************************)
EXTENDS Integers, Sequences, FiniteSets, TLC

\* ------------------------------------------------------------------ bounds
MaxFaults == 1
NumUuids == 2

\* --------------------------------------------------------------- constants
\* No response at all: requests raises a RequestException without a response.
NetErr == 0

\* roles = ["PlatformAdmin", "OrgAdmin", "User"]
roles == <<"PlatformAdmin", "OrgAdmin", "User">>

\* roles = ["PlatformAdmin", "OrgAdmin", "Owner", "User"]
roles_groups == <<"PlatformAdmin", "OrgAdmin", "Owner", "User">>

\* old_roles = ["user", "adm", "User"]
old_roles_WithoutAdm == <<"user", "User", "User">>
old_roles == <<"user", "adm", "User">>

\* correct_roles = ["PlatformAdmin", "OrgAdmin", "Owner", "User"]
correct_roles == <<"PlatformAdmin", "OrgAdmin", "Owner", "User">>

\* new_roles_to_assign = ["PlatformAdmin", "OrgAdmin", "Owner", "User"]
new_roles_to_assign == <<"PlatformAdmin", "OrgAdmin", "Owner", "User">>

RoleNames == {"PlatformAdmin", "OrgAdmin", "Owner", "User"}
MapperNames == {"organization-id-mapper", "organization-group-mapper",
                "organization-id-from-group"}
GroupNames == {"spooliq-platform", "spooliq-platform-eu"}
Uuids == 1..NumUuids

Range(s) == {s[i] : i \in 1..Len(s)}

\* ------------------------------------------------------------------- state
VARIABLES
    script,     \* which script this process runs
    config,     \* KEYCLOAK_ADMIN_EMAIL and KEYCLOAK_ADMIN_PASSWORD are set
    orgUuid,    \* organization_uuid / SPOOLIQ_ORG_UUID of this run
    pc,         \* position of the script
    loc,        \* the script's local variables
    exitCode,   \* -1 while running, then the process exit status
    log,        \* requests issued in this run, with the answer received
    faults,     \* injected answers so far
    remote,     \* the realm
    rerun,      \* FALSE in the first run, TRUE in the run that follows it
    start,      \* the realm as it was when this run started
    prev        \* the finished first run: exit status, realm and uuid at exit

vars == <<script, config, orgUuid, pc, loc, exitCode, log, faults, remote, rerun,
          start, prev>>

Realm(c, r, s, m, d, g, go, u, uo, ur, ug) ==
    [client |-> c, roles |-> r, scope |-> s, mappers |-> m,
     defaultScope |-> d, groups |-> g, groupOrg |-> go,
     user |-> u, userOrg |-> uo, userRoles |-> ur, userGroups |-> ug,
     userProfile |-> IF u THEN 1 ELSE 0]

NoGroupOrg == [g \in GroupNames |-> 0]

\* A user representation as GET users/{user_id} returns it and PUT takes it:
\* the attribute organization_id, and profile for every other field and
\* attribute of the user.  The body of an error answer is no user
\* representation.
UserRepresentation(r) ==
    [user |-> TRUE, profile |-> r.userProfile, organization_id |-> r.userOrg]
ErrorBody == [user |-> FALSE, profile |-> 0, organization_id |-> 0]

\* user_data["attributes"]["organization_id"] = [uuid] on the dict the GET
\* returned
SetOrganizationId_Rebuilt(user_data, u) ==
    [user |-> user_data.user, profile |-> 0, organization_id |-> u]
SetOrganizationId(user_data, u) ==
    [user_data EXCEPT !.organization_id = u]

InitLoc ==
    [token |-> "none", clientUuid |-> "none", scopeId |-> "none",
     groupId |-> "none", userId |-> "none", success |-> TRUE, roleIdx |-> 1,
     availableRoles |-> {}, currentRoles |-> {}, interrupted |-> FALSE,
     user_data |-> ErrorBody]

Req(step, op, kind, key, st, names) ==
    [step |-> step, op |-> op, kind |-> kind, key |-> key, st |-> st,
     names |-> names]

\* ----------------------------------------------------------- the requests
\* The answer st is the realm's own answer, or an injected one while the
\* budget lasts.
Reply(st, faithful) ==
    /\ st # faithful => faults < MaxFaults
    /\ faults' = IF st = faithful THEN faults ELSE faults + 1

\* a 2xx status
Success(st) == st \in 200..299

\* as Reply, for an answer that can also deviate in its content: asUsual is
\* false when a 2xx answer lacks what the realm normally sends (the created
\* resource in the list, the Location header)
ReplyWith(st, faithful, asUsual) ==
    /\ ~asUsual => Success(st)
    /\ (st # faithful \/ ~asUsual) => faults < MaxFaults
    /\ faults' = IF st = faithful /\ asUsual THEN faults ELSE faults + 1

\* the Authorization header of the requests: "Bearer {admin_token}" once
\* the token request has returned, put into the session headers
\* (multitenant) or into the headers dict every request is sent with
Authorization_Dropped == "none"
Authorization == loc.token

\* a request is sent and answered: the log keeps it with the credential it
\* was sent with
Sent(r) ==
    log' = Append(log, [step |-> r.step, op |-> r.op, kind |-> r.kind,
                        key |-> r.key, st |-> r.st, names |-> r.names,
                        auth |-> Authorization])

\* the identifier a lookup function returns: the id of the resource it found,
\* None when it found nothing
RemoteId(found, id) == IF found = {} THEN "none" ELSE id

\* run(): "if not client_uuid: return False", "if not scope_id: return False"
NoneReturned_Ignored(id) == FALSE
NoneReturned(id) == id = "none"

GetAnswers(faithful) == {faithful, 500, NetErr}
PostAnswers(exists) == {IF exists THEN 409 ELSE 201, 409, 500, NetErr}
PutAnswers == {204, 404, 500, NetErr}

\* PUT users/{user_id}: the service stores the representation it is sent and
\* answers 204; a body that is no user representation (the error body, with
\* its key "error") is answered 400 and never 204
UpdateUser(r, body) ==
    [r EXCEPT !.userOrg = body.organization_id, !.userProfile = body.profile]
PutUserAnswers(body) ==
    IF body.user THEN PutAnswers ELSE (PutAnswers \ {204}) \cup {400}
PutUserFaithful(body) == IF body.user THEN 204 ELSE 400

\* response.raise_for_status() raises for 4xx and 5xx; a network error
\* raises from the request itself.  Both are RequestException.
RaisesOnlyServerErrors(st) == st = NetErr \/ st >= 500
Raises(st) == st = NetErr \/ st >= 400

\* bool(response) is response.ok: false for every status raise_for_status
\* raises on; e.response is None for a network error.
Truthy(st) == st # NetErr /\ st < 400

\* "if users: ... else: return None"  /  "if not users: sys.exit(1)"
NotFound_Never(users) == FALSE
NotFound(users) == users = {}

\* sys.exit(1), or run() returning False to main()
Abort_ExitsZero == pc' = "done" /\ exitCode' = 0
Abort == pc' = "done" /\ exitCode' = 1

\* ------------------------------------------------------------- multitenant
\* module level: "if not ADMIN_EMAIL or not ADMIN_PASSWORD: ... sys.exit(1)"
check_configuration ==
    /\ script = "multitenant" /\ pc = "config"
    /\ IF config THEN pc' = "token" /\ UNCHANGED exitCode ELSE Abort
    /\ UNCHANGED <<script, config, orgUuid, loc, log, faults, remote, rerun,
                   start, prev>>

\* KeycloakSetup.get_admin_token
get_admin_token ==
    /\ script = "multitenant" /\ pc = "token"
    /\ \E st \in {200, 401, NetErr} :
        /\ Reply(st, 200)
        /\ Sent(Req(1, "POST", "token", "admin-cli", st, {}))
        /\ IF Raises(st)
           THEN Abort /\ UNCHANGED loc
           ELSE /\ loc' = [loc EXCEPT !.token = "bearer"]
                /\ pc' = "client_check" /\ UNCHANGED exitCode
    /\ UNCHANGED <<script, config, orgUuid, remote, rerun, start, prev>>

\* KeycloakSetup.create_client: GET clients?clientId=spooliq
create_client_check ==
    /\ script = "multitenant" /\ pc = "client_check"
    /\ \E st \in GetAnswers(200) :
        /\ Reply(st, 200)
        /\ LET found == IF st = 200 /\ remote.client THEN {"spooliq"} ELSE {}
           IN  /\ Sent(Req(2, "GET", "client", "spooliq", st, found))
               /\ IF ~Raises(st) /\ found # {}
                  THEN /\ loc' = [loc EXCEPT !.clientUuid = "client-id"]
                       /\ pc' = "role_check"
                  ELSE /\ pc' = "client_post" /\ UNCHANGED loc
    /\ UNCHANGED <<script, config, orgUuid, exitCode, remote, rerun, start, prev>>

\* KeycloakSetup.create_client: POST clients
create_client_post ==
    /\ script = "multitenant" /\ pc = "client_post"
    /\ \E st \in PostAnswers(remote.client) :
        /\ Reply(st, IF remote.client THEN 409 ELSE 201)
        /\ Sent(Req(2, "POST", "client", "spooliq", st, {}))
        /\ remote' = IF st \in {201, 409}
                     THEN [remote EXCEPT !.client = TRUE] ELSE remote
        /\ IF Raises(st)
           THEN Abort
           ELSE pc' = "client_fetch" /\ UNCHANGED exitCode
    /\ UNCHANGED <<script, config, orgUuid, loc, rerun, start, prev>>

\* KeycloakSetup.create_client: GET clients?clientId=spooliq after the POST
create_client_fetch ==
    /\ script = "multitenant" /\ pc = "client_fetch"
    /\ \E st \in GetAnswers(200), listed \in BOOLEAN :
        /\ ReplyWith(st, 200, listed)
        /\ LET found == IF st = 200 /\ remote.client /\ listed
                        THEN {"spooliq"} ELSE {}
           IN  /\ Sent(Req(2, "GET", "client", "spooliq", st, found))
               /\ IF Raises(st) \/ found = {}
                  THEN Abort /\ UNCHANGED loc
                  ELSE /\ loc' = [loc EXCEPT !.clientUuid = "client-id"]
                       /\ pc' = "role_check" /\ UNCHANGED exitCode
    /\ UNCHANGED <<script, config, orgUuid, remote, rerun, start, prev>>

\* KeycloakSetup.create_roles: end of one iteration of the loop, and the
\* "if not self.create_roles(): return False" of run() after the last one
create_roles_next_ReturnsAtFailure(ok) ==
    IF loc.roleIdx < Len(roles) /\ ok
    THEN /\ loc' = [loc EXCEPT !.roleIdx = loc.roleIdx + 1, !.success = ok]
         /\ pc' = "role_check" /\ UNCHANGED exitCode
    ELSE /\ loc' = [loc EXCEPT !.roleIdx = 1, !.success = ok]
         /\ IF ok THEN pc' = "scope_check" /\ UNCHANGED exitCode ELSE Abort
create_roles_next(ok) ==
    IF loc.roleIdx < Len(roles)
    THEN /\ loc' = [loc EXCEPT !.roleIdx = loc.roleIdx + 1, !.success = ok]
         /\ pc' = "role_check" /\ UNCHANGED exitCode
    ELSE /\ loc' = [loc EXCEPT !.roleIdx = 1, !.success = ok]
         /\ IF ok THEN pc' = "scope_check" /\ UNCHANGED exitCode ELSE Abort

\* KeycloakSetup.create_roles: GET roles/{role_name}
create_roles_check ==
    /\ script = "multitenant" /\ pc = "role_check"
    /\ LET role_name == roles[loc.roleIdx]
           faithful == IF role_name \in remote.roles THEN 200 ELSE 404
       IN \E st \in GetAnswers(faithful) :
            /\ Reply(st, faithful)
            /\ Sent(Req(3, "GET", "role", role_name, st,
                        IF st = 200 THEN {role_name} ELSE {}))
            /\ IF st = 200
               THEN create_roles_next(loc.success)
               ELSE pc' = "role_post" /\ UNCHANGED <<loc, exitCode>>
    /\ UNCHANGED <<script, config, orgUuid, remote, rerun, start, prev>>

\* KeycloakSetup.create_roles: POST roles
create_roles_post ==
    /\ script = "multitenant" /\ pc = "role_post"
    /\ LET role_name == roles[loc.roleIdx]
           exists == role_name \in remote.roles
       IN \E st \in PostAnswers(exists) :
            /\ Reply(st, IF exists THEN 409 ELSE 201)
            /\ Sent(Req(3, "POST", "role", role_name, st, {}))
            /\ remote' = IF st \in {201, 409}
                         THEN [remote EXCEPT !.roles = @ \cup {role_name}]
                         ELSE remote
            /\ create_roles_next(IF Raises(st) THEN FALSE ELSE loc.success)
    /\ UNCHANGED <<script, config, orgUuid, rerun, start, prev>>

\* KeycloakSetup.create_client_scope: GET client-scopes, scan for the name
create_client_scope_check ==
    /\ script = "multitenant" /\ pc = "scope_check"
    /\ \E st \in GetAnswers(200) :
        /\ Reply(st, 200)
        /\ LET found == IF st = 200 /\ remote.scope THEN {"organization"} ELSE {}
           IN  /\ Sent(Req(4, "GET", "scope", "organization", st, found))
               /\ IF ~Raises(st) /\ found # {}
                  THEN /\ loc' = [loc EXCEPT !.scopeId = "scope-id"]
                       /\ pc' = "mapper_check"
                  ELSE /\ pc' = "scope_post" /\ UNCHANGED loc
    /\ UNCHANGED <<script, config, orgUuid, exitCode, remote, rerun, start, prev>>

\* KeycloakSetup.create_client_scope: POST client-scopes
create_client_scope_post ==
    /\ script = "multitenant" /\ pc = "scope_post"
    /\ \E st \in PostAnswers(remote.scope) :
        /\ Reply(st, IF remote.scope THEN 409 ELSE 201)
        /\ Sent(Req(4, "POST", "scope", "organization", st, {}))
        /\ remote' = IF st \in {201, 409}
                     THEN [remote EXCEPT !.scope = TRUE] ELSE remote
        /\ IF Raises(st)
           THEN Abort
           ELSE pc' = "scope_fetch" /\ UNCHANGED exitCode
    /\ UNCHANGED <<script, config, orgUuid, loc, rerun, start, prev>>

\* KeycloakSetup.create_client_scope: GET client-scopes after the POST; the
\* function returns None when the request raises or the scan finds nothing
create_client_scope_fetch ==
    /\ script = "multitenant" /\ pc = "scope_fetch"
    /\ \E st \in GetAnswers(200), listed \in BOOLEAN :
        /\ ReplyWith(st, 200, listed)
        /\ LET found == IF st = 200 /\ remote.scope /\ listed
                        THEN {"organization"} ELSE {}
               scope_id == RemoteId(found, "scope-id")
           IN  /\ Sent(Req(4, "GET", "scope", "organization", st, found))
               /\ IF Raises(st) \/ NoneReturned(scope_id)
                  THEN Abort /\ UNCHANGED loc
                  ELSE /\ loc' = [loc EXCEPT !.scopeId = scope_id]
                       /\ pc' = "mapper_check" /\ UNCHANGED exitCode
    /\ UNCHANGED <<script, config, orgUuid, remote, rerun, start, prev>>

\* KeycloakSetup.create_protocol_mapper: GET .../protocol-mappers/models
create_protocol_mapper_check ==
    /\ script = "multitenant" /\ pc = "mapper_check"
    /\ \E st \in GetAnswers(200) :
        /\ Reply(st, 200)
        /\ LET found == IF st = 200 THEN remote.mappers ELSE {}
           IN  /\ Sent(Req(5, "GET", "mapper", "organization-id-mapper", st,
                           found))
               /\ IF ~Raises(st) /\ "organization-id-mapper" \in found
                  THEN pc' = "assign_scope"
                  ELSE pc' = "mapper_post"
    /\ UNCHANGED <<script, config, orgUuid, loc, exitCode, remote, rerun, start, prev>>

\* KeycloakSetup.create_protocol_mapper, the except branch:
\*   if e.response and e.response.status_code == 409: return True
MapperConflictIsSuccess_NoTruthTest(st) == st = 409
MapperConflictIsSuccess(st) == Truthy(st) /\ st = 409

\* KeycloakSetup.create_protocol_mapper: POST .../protocol-mappers/models
create_protocol_mapper_post ==
    /\ script = "multitenant" /\ pc = "mapper_post"
    /\ LET exists == "organization-id-mapper" \in remote.mappers
       IN \E st \in PostAnswers(exists) :
            /\ Reply(st, IF exists THEN 409 ELSE 201)
            /\ Sent(Req(5, "POST", "mapper", "organization-id-mapper", st, {}))
            /\ remote' = IF st \in {201, 409}
                         THEN [remote EXCEPT
                                 !.mappers = @ \cup {"organization-id-mapper"}]
                         ELSE remote
            /\ IF ~Raises(st) \/ MapperConflictIsSuccess(st)
               THEN pc' = "assign_scope" /\ UNCHANGED exitCode
               ELSE Abort
    /\ UNCHANGED <<script, config, orgUuid, loc, rerun, start, prev>>

\* KeycloakSetup.assign_scope_to_client: PUT
\*   clients/{client_uuid}/default-client-scopes/{scope_id}
assign_scope_to_client ==
    /\ script = "multitenant" /\ pc = "assign_scope"
    /\ \E st \in PutAnswers :
        /\ Reply(st, 204)
        /\ Sent(Req(6, "PUT", "defaultScope", "organization", st, {}))
        /\ remote' = IF st = 204
                     THEN [remote EXCEPT !.defaultScope = TRUE] ELSE remote
        /\ IF Raises(st)
           THEN Abort
           ELSE pc' = "find_user" /\ UNCHANGED exitCode
    /\ UNCHANGED <<script, config, orgUuid, loc, rerun, start, prev>>

\* KeycloakSetup.find_user_by_email: GET users?email=&exact=true
find_user_by_email ==
    /\ script = "multitenant" /\ pc = "find_user"
    /\ \E st \in GetAnswers(200) :
        /\ Reply(st, 200)
        /\ LET users == IF st = 200 /\ remote.user THEN {"admin"} ELSE {}
           IN  /\ Sent(Req(7, "GET", "user", "admin", st, users))
               /\ IF Raises(st) \/ NotFound(users)
                  THEN Abort /\ UNCHANGED loc
                  ELSE /\ loc' = [loc EXCEPT !.userId = "user-id"]
                       /\ pc' = "attr_get" /\ UNCHANGED exitCode
    /\ UNCHANGED <<script, config, orgUuid, remote, rerun, start, prev>>

\* KeycloakSetup.set_user_attribute: GET users/{user_id}
set_user_attribute_get ==
    /\ script = "multitenant" /\ pc = "attr_get"
    /\ \E st \in GetAnswers(200) :
        /\ Reply(st, 200)
        /\ Sent(Req(8, "GET", "userAttr", "admin", st, {}))
        /\ IF Raises(st)
           THEN Abort /\ UNCHANGED loc
           ELSE /\ loc' = [loc EXCEPT !.user_data = UserRepresentation(remote)]
                /\ pc' = "attr_put" /\ UNCHANGED exitCode
    /\ UNCHANGED <<script, config, orgUuid, remote, rerun, start, prev>>

\* KeycloakSetup.set_user_attribute: PUT users/{user_id} with
\*   attributes.organization_id = [self.organization_uuid]
set_user_attribute_put ==
    /\ script = "multitenant" /\ pc = "attr_put"
    /\ LET user_data == SetOrganizationId(loc.user_data, orgUuid)
       IN \E st \in PutUserAnswers(user_data) :
        /\ Reply(st, PutUserFaithful(user_data))
        /\ Sent(Req(8, "PUT", "userAttr", "admin", st,
                    {user_data.organization_id}))
        /\ remote' = IF st = 204 /\ user_data.user
                     THEN UpdateUser(remote, user_data) ELSE remote
        /\ IF Raises(st)
           THEN Abort
           ELSE pc' = "roles_get" /\ UNCHANGED exitCode
    /\ UNCHANGED <<script, config, orgUuid, loc, rerun, start, prev>>

\* KeycloakSetup.assign_roles_to_user:
\*   "if len(role_objects) != len(roles_to_assign): return False"
AllFound_AnyFound(role_objects) == role_objects # {}
AllFound(role_objects) == Cardinality(role_objects) = Len(roles)

\* KeycloakSetup.assign_roles_to_user: GET roles, pick roles_to_assign; the
\* list the service returns may lack a role of the realm (unlisted)
assign_roles_to_user_get ==
    /\ script = "multitenant" /\ pc = "roles_get"
    /\ \E st \in GetAnswers(200),
          unlisted \in {{}} \cup {{r} : r \in Range(roles)} :
        /\ ReplyWith(st, 200, unlisted = {})
        /\ LET all_roles == IF st = 200 THEN remote.roles \ unlisted ELSE {}
               role_objects == Range(roles) \cap all_roles
           IN  /\ Sent(Req(9, "GET", "role", "*", st, role_objects))
               /\ IF Raises(st) \/ ~AllFound(role_objects)
                  THEN Abort /\ UNCHANGED loc
                  ELSE /\ loc' = [loc EXCEPT !.availableRoles = role_objects]
                       /\ pc' = "roles_post" /\ UNCHANGED exitCode
    /\ UNCHANGED <<script, config, orgUuid, remote, rerun, start, prev>>

\* KeycloakSetup.assign_roles_to_user: POST users/{id}/role-mappings/realm,
\* then run() returns True and main() exits 0
assign_roles_to_user_post ==
    /\ script = "multitenant" /\ pc = "roles_post"
    /\ \E st \in {204, 409, 500, NetErr} :
        /\ Reply(st, 204)
        /\ Sent(Req(9, "POST", "roleMapping", "admin", st, loc.availableRoles))
        /\ remote' = IF st = 204
                     THEN [remote EXCEPT !.userRoles = @ \cup loc.availableRoles]
                     ELSE remote
        /\ IF Raises(st)
           THEN Abort
           ELSE pc' = "done" /\ exitCode' = 0
    /\ UNCHANGED <<script, config, orgUuid, loc, rerun, start, prev>>

Multitenant ==
    \/ check_configuration
    \/ get_admin_token
    \/ create_client_check \/ create_client_post \/ create_client_fetch
    \/ create_roles_check \/ create_roles_post
    \/ create_client_scope_check \/ create_client_scope_post
    \/ create_client_scope_fetch
    \/ create_protocol_mapper_check \/ create_protocol_mapper_post
    \/ assign_scope_to_client
    \/ find_user_by_email
    \/ set_user_attribute_get \/ set_user_attribute_put
    \/ assign_roles_to_user_get \/ assign_roles_to_user_post

\* ------------------------------------------------------------------ groups
\* setup_keycloak_groups.py has no exception handler after STEP 1: a request
\* that raises, or an error body that is not the list the script indexes,
\* ends the process with a traceback and exit status 1.
Crash == pc' = "done" /\ exitCode' = 1

\* names the "search" parameter of GET groups matches: every group whose name
\* contains the string
SearchMatches(names) == names \cap {"spooliq-platform", "spooliq-platform-eu"}

\* "organization" in m.get("name", "").lower()
ContainsOrganization(name) ==
    name \in {"organization-id-mapper", "organization-group-mapper",
              "organization-id-from-group"}

\* STEP 1: Authenticate with Keycloak
Step1_Authenticate ==
    /\ script = "groups" /\ pc = "g_token"
    /\ \E st \in {200, 401, NetErr} :
        /\ Reply(st, 200)
        /\ Sent(Req(1, "POST", "token", "admin-cli", st, {}))
        /\ IF Raises(st)
           THEN Abort /\ UNCHANGED loc
           ELSE /\ loc' = [loc EXCEPT !.token = "bearer"]
                /\ pc' = "g_client_check" /\ UNCHANGED exitCode
    /\ UNCHANGED <<script, config, orgUuid, remote, rerun, start, prev>>

\* STEP 2: GET clients?clientId=spooliq
Step2_CheckClient ==
    /\ script = "groups" /\ pc = "g_client_check"
    /\ \E st \in GetAnswers(200) :
        /\ Reply(st, 200)
        /\ LET found == IF st = 200 /\ remote.client THEN {"spooliq"} ELSE {}
           IN  /\ Sent(Req(2, "GET", "client", "spooliq", st, found))
               /\ IF st # 200
                  THEN Crash /\ UNCHANGED loc
                  ELSE IF found # {}
                  THEN /\ loc' = [loc EXCEPT !.clientUuid = "client-id"]
                       /\ pc' = "g_role_check" /\ UNCHANGED exitCode
                  ELSE /\ pc' = "g_client_post" /\ UNCHANGED <<loc, exitCode>>
    /\ UNCHANGED <<script, config, orgUuid, remote, rerun, start, prev>>

\* STEP 2: POST clients; anything but 201 is sys.exit(1)
Step2_CreateClient ==
    /\ script = "groups" /\ pc = "g_client_post"
    /\ \E st \in PostAnswers(remote.client) :
        /\ Reply(st, IF remote.client THEN 409 ELSE 201)
        /\ Sent(Req(2, "POST", "client", "spooliq", st, {}))
        /\ remote' = IF st \in {201, 409}
                     THEN [remote EXCEPT !.client = TRUE] ELSE remote
        /\ IF st = 201
           THEN pc' = "g_client_fetch" /\ UNCHANGED exitCode
           ELSE Abort
    /\ UNCHANGED <<script, config, orgUuid, loc, rerun, start, prev>>

\* STEP 2: GET clients?clientId=spooliq after the POST
Step2_FetchClient ==
    /\ script = "groups" /\ pc = "g_client_fetch"
    /\ \E st \in GetAnswers(200), listed \in BOOLEAN :
        /\ ReplyWith(st, 200, listed)
        /\ LET found == IF st = 200 /\ remote.client /\ listed
                        THEN {"spooliq"} ELSE {}
           IN  /\ Sent(Req(2, "GET", "client", "spooliq", st, found))
               /\ IF st # 200 \/ found = {}
                  THEN Crash /\ UNCHANGED loc
                  ELSE /\ loc' = [loc EXCEPT !.clientUuid = "client-id"]
                       /\ pc' = "g_role_check" /\ UNCHANGED exitCode
    /\ UNCHANGED <<script, config, orgUuid, remote, rerun, start, prev>>

\* STEP 3: end of one iteration of "for role in roles"
Step3_Next_SkipsLast ==
    IF loc.roleIdx < Len(roles_groups) - 1
    THEN /\ loc' = [loc EXCEPT !.roleIdx = loc.roleIdx + 1]
         /\ pc' = "g_role_check"
    ELSE /\ loc' = [loc EXCEPT !.roleIdx = 1]
         /\ pc' = "g_scope_check"
Step3_Next ==
    IF loc.roleIdx < Len(roles_groups)
    THEN /\ loc' = [loc EXCEPT !.roleIdx = loc.roleIdx + 1]
         /\ pc' = "g_role_check"
    ELSE /\ loc' = [loc EXCEPT !.roleIdx = 1]
         /\ pc' = "g_scope_check"

\* STEP 3: GET roles/{role}
Step3_CheckRole ==
    /\ script = "groups" /\ pc = "g_role_check"
    /\ LET role == roles_groups[loc.roleIdx]
           faithful == IF role \in remote.roles THEN 200 ELSE 404
       IN \E st \in GetAnswers(faithful) :
            /\ Reply(st, faithful)
            /\ Sent(Req(3, "GET", "role", role, st,
                        IF st = 200 THEN {role} ELSE {}))
            /\ IF st = NetErr
               THEN Crash /\ UNCHANGED loc
               ELSE IF st = 200
               THEN Step3_Next /\ UNCHANGED exitCode
               ELSE pc' = "g_role_post" /\ UNCHANGED <<loc, exitCode>>
    /\ UNCHANGED <<script, config, orgUuid, remote, rerun, start, prev>>

\* STEP 3: POST roles; a status other than 201 prints a warning and the loop
\* goes on
Step3_CreateRole ==
    /\ script = "groups" /\ pc = "g_role_post"
    /\ LET role == roles_groups[loc.roleIdx]
           exists == role \in remote.roles
       IN \E st \in PostAnswers(exists) :
            /\ Reply(st, IF exists THEN 409 ELSE 201)
            /\ Sent(Req(3, "POST", "role", role, st, {}))
            /\ remote' = IF st \in {201, 409}
                         THEN [remote EXCEPT !.roles = @ \cup {role}]
                         ELSE remote
            /\ IF st = NetErr
               THEN Crash /\ UNCHANGED loc
               ELSE Step3_Next /\ UNCHANGED exitCode
    /\ UNCHANGED <<script, config, orgUuid, rerun, start, prev>>

\* STEP 4: GET client-scopes, filter by name
Step4_CheckScope ==
    /\ script = "groups" /\ pc = "g_scope_check"
    /\ \E st \in GetAnswers(200) :
        /\ Reply(st, 200)
        /\ LET found == IF st = 200 /\ remote.scope THEN {"organization"} ELSE {}
           IN  /\ Sent(Req(4, "GET", "scope", "organization", st, found))
               /\ IF st # 200
                  THEN Crash /\ UNCHANGED loc
                  ELSE IF found # {}
                  THEN /\ loc' = [loc EXCEPT !.scopeId = "scope-id"]
                       /\ pc' = "g_mapper_check" /\ UNCHANGED exitCode
                  ELSE /\ pc' = "g_scope_post" /\ UNCHANGED <<loc, exitCode>>
    /\ UNCHANGED <<script, config, orgUuid, remote, rerun, start, prev>>

\* STEP 4: POST client-scopes; anything but 201 is sys.exit(1)
Step4_CreateScope ==
    /\ script = "groups" /\ pc = "g_scope_post"
    /\ \E st \in PostAnswers(remote.scope) :
        /\ Reply(st, IF remote.scope THEN 409 ELSE 201)
        /\ Sent(Req(4, "POST", "scope", "organization", st, {}))
        /\ remote' = IF st \in {201, 409}
                     THEN [remote EXCEPT !.scope = TRUE] ELSE remote
        /\ IF st = 201
           THEN pc' = "g_scope_fetch" /\ UNCHANGED exitCode
           ELSE Abort
    /\ UNCHANGED <<script, config, orgUuid, loc, rerun, start, prev>>

\* STEP 4: GET client-scopes after the POST
Step4_FetchScope ==
    /\ script = "groups" /\ pc = "g_scope_fetch"
    /\ \E st \in GetAnswers(200), listed \in BOOLEAN :
        /\ ReplyWith(st, 200, listed)
        /\ LET found == IF st = 200 /\ remote.scope /\ listed
                        THEN {"organization"} ELSE {}
           IN  /\ Sent(Req(4, "GET", "scope", "organization", st, found))
               /\ IF st # 200 \/ found = {}
                  THEN Crash /\ UNCHANGED loc
                  ELSE /\ loc' = [loc EXCEPT !.scopeId = "scope-id"]
                       /\ pc' = "g_mapper_check" /\ UNCHANGED exitCode
    /\ UNCHANGED <<script, config, orgUuid, remote, rerun, start, prev>>

\* STEP 5: GET .../protocol-mappers/models; existing_mappers are the mappers
\* whose name contains "organization"
Step5_CheckMapper ==
    /\ script = "groups" /\ pc = "g_mapper_check"
    /\ \E st \in GetAnswers(200) :
        /\ Reply(st, 200)
        /\ LET found == IF st = 200 THEN remote.mappers ELSE {}
               existing_mappers == {m \in found : ContainsOrganization(m)}
           IN  /\ Sent(Req(5, "GET", "mapper", "organization-group-mapper", st,
                           found))
               /\ IF st # 200
                  THEN Crash
                  ELSE IF existing_mappers # {}
                  THEN pc' = "g_custom_mapper_post" /\ UNCHANGED exitCode
                  ELSE pc' = "g_mapper_post" /\ UNCHANGED exitCode
    /\ UNCHANGED <<script, config, orgUuid, loc, remote, rerun, start, prev>>

\* STEP 5: POST organization-group-mapper; every status goes on
Step5_CreateGroupMapper ==
    /\ script = "groups" /\ pc = "g_mapper_post"
    /\ LET exists == "organization-group-mapper" \in remote.mappers
       IN \E st \in PostAnswers(exists) :
            /\ Reply(st, IF exists THEN 409 ELSE 201)
            /\ Sent(Req(5, "POST", "mapper", "organization-group-mapper", st,
                        {}))
            /\ remote' = IF st \in {201, 409}
                         THEN [remote EXCEPT
                                 !.mappers = @ \cup {"organization-group-mapper"}]
                         ELSE remote
            /\ IF st = NetErr
               THEN Crash
               ELSE pc' = "g_custom_mapper_post" /\ UNCHANGED exitCode
    /\ UNCHANGED <<script, config, orgUuid, loc, rerun, start, prev>>

\* STEP 5: POST organization-id-from-group, without a lookup; every status
\* goes on
Step5_CreateCustomMapper ==
    /\ script = "groups" /\ pc = "g_custom_mapper_post"
    /\ LET exists == "organization-id-from-group" \in remote.mappers
       IN \E st \in PostAnswers(exists) :
            /\ Reply(st, IF exists THEN 409 ELSE 201)
            /\ Sent(Req(5, "POST", "mapper", "organization-id-from-group", st,
                        {}))
            /\ remote' = IF st \in {201, 409}
                         THEN [remote EXCEPT
                                 !.mappers = @ \cup {"organization-id-from-group"}]
                         ELSE remote
            /\ IF st = NetErr
               THEN Crash
               ELSE pc' = "g_assign_scope" /\ UNCHANGED exitCode
    /\ UNCHANGED <<script, config, orgUuid, loc, rerun, start, prev>>

\* STEP 6: PUT clients/{client_id}/default-client-scopes/{scope_id};
\* 204 and 404 print success, any other status a warning, and the script
\* goes on
Step6_AssignScope ==
    /\ script = "groups" /\ pc = "g_assign_scope"
    /\ \E st \in PutAnswers :
        /\ Reply(st, 204)
        /\ Sent(Req(6, "PUT", "defaultScope", "organization", st, {}))
        /\ remote' = IF st = 204
                     THEN [remote EXCEPT !.defaultScope = TRUE] ELSE remote
        /\ IF st = NetErr
           THEN Crash
           ELSE pc' = "g_group_check" /\ UNCHANGED exitCode
    /\ UNCHANGED <<script, config, orgUuid, loc, rerun, start, prev>>

\* STEP 7: group_data, the body of POST groups: the organization_id of its
\* attributes is SPOOLIQ_ORG_UUID
group_data_Regenerated == (orgUuid % NumUuids) + 1
group_data == orgUuid

\* STEP 7: GET groups?search=spooliq-platform; group_id is the id of the
\* first group of the answer, whichever the service lists first
Step7_CheckGroup ==
    /\ script = "groups" /\ pc = "g_group_check"
    /\ \E st \in GetAnswers(200) :
        /\ Reply(st, 200)
        /\ LET existing_groups ==
                   IF st = 200 THEN SearchMatches(remote.groups) ELSE {}
           IN  /\ Sent(Req(7, "GET", "group", "spooliq-platform", st,
                           existing_groups))
               /\ IF st # 200
                  THEN Crash /\ UNCHANGED loc
                  ELSE IF existing_groups # {}
                  THEN /\ \E g \in existing_groups :
                            loc' = [loc EXCEPT !.groupId = g]
                       /\ pc' = "g_find_user" /\ UNCHANGED exitCode
                  ELSE /\ pc' = "g_group_post" /\ UNCHANGED <<loc, exitCode>>
    /\ UNCHANGED <<script, config, orgUuid, remote, rerun, start, prev>>

\* STEP 7: location.split("/") raises when the answer has no Location
\* header (location is None)
LocationMissing_Ignored(location) == FALSE
LocationMissing(location) == ~location

\* STEP 7: POST groups with attributes.organization_id = [SPOOLIQ_ORG_UUID];
\* group_id comes from the Location header; anything but 201 is sys.exit(1)
Step7_CreateGroup ==
    /\ script = "groups" /\ pc = "g_group_post"
    /\ LET exists == "spooliq-platform" \in remote.groups
       IN \E st \in PostAnswers(exists), location \in BOOLEAN :
            /\ ReplyWith(st, IF exists THEN 409 ELSE 201, location)
            /\ Sent(Req(7, "POST", "group", "spooliq-platform", st,
                        {group_data}))
            /\ remote' =
                 IF st = 201
                 THEN [remote EXCEPT
                         !.groups = @ \cup {"spooliq-platform"},
                         !.groupOrg["spooliq-platform"] = group_data]
                 ELSE IF st = 409
                 THEN [remote EXCEPT !.groups = @ \cup {"spooliq-platform"}]
                 ELSE remote
            /\ IF st # 201
               THEN Abort /\ UNCHANGED loc
               ELSE IF LocationMissing(location)
               THEN Crash /\ UNCHANGED loc
               ELSE /\ loc' = [loc EXCEPT !.groupId =
                                 IF location THEN "spooliq-platform"
                                 ELSE "none"]
                    /\ pc' = "g_find_user" /\ UNCHANGED exitCode
    /\ UNCHANGED <<script, config, orgUuid, rerun, start, prev>>

\* STEP 8: GET users?email=&exact=true; "if not users: sys.exit(1)"
Step8_FindUser ==
    /\ script = "groups" /\ pc = "g_find_user"
    /\ \E st \in GetAnswers(200) :
        /\ Reply(st, 200)
        /\ LET users == IF st = 200 /\ remote.user THEN {"admin"} ELSE {}
           IN  /\ Sent(Req(8, "GET", "user", "admin", st, users))
               /\ IF st # 200
                  THEN Crash /\ UNCHANGED loc
                  ELSE IF NotFound(users)
                  THEN Abort /\ UNCHANGED loc
                  ELSE /\ loc' = [loc EXCEPT !.userId = "user-id"]
                       /\ pc' = "g_join_group" /\ UNCHANGED exitCode
    /\ UNCHANGED <<script, config, orgUuid, remote, rerun, start, prev>>

\* STEP 9: PUT users/{user_id}/groups/{group_id}; every status goes on
Step9_AddUserToGroup ==
    /\ script = "groups" /\ pc = "g_join_group"
    /\ \E st \in PutAnswers :
        /\ Reply(st, 204)
        /\ Sent(Req(9, "PUT", "membership", loc.groupId, st, {}))
        /\ remote' = IF st = 204
                     THEN [remote EXCEPT !.userGroups = @ \cup {loc.groupId}]
                     ELSE remote
        /\ IF st = NetErr
           THEN Crash
           ELSE pc' = "g_attr_get" /\ UNCHANGED exitCode
    /\ UNCHANGED <<script, config, orgUuid, loc, rerun, start, prev>>

\* STEP 9: GET users/{user_id}; the body is used whatever the status
Step9_GetUser ==
    /\ script = "groups" /\ pc = "g_attr_get"
    /\ \E st \in GetAnswers(200) :
        /\ Reply(st, 200)
        /\ Sent(Req(9, "GET", "userAttr", "admin", st, {}))
        /\ IF st = NetErr
           THEN Crash /\ UNCHANGED loc
           ELSE /\ loc' = [loc EXCEPT !.user_data =
                             IF st = 200 THEN UserRepresentation(remote)
                             ELSE ErrorBody]
                /\ pc' = "g_attr_put" /\ UNCHANGED exitCode
    /\ UNCHANGED <<script, config, orgUuid, remote, rerun, start, prev>>

\* STEP 9: PUT users/{user_id} with attributes.organization_id =
\* [SPOOLIQ_ORG_UUID]; every status goes on
Step9_PutUser ==
    /\ script = "groups" /\ pc = "g_attr_put"
    /\ LET user_data == SetOrganizationId(loc.user_data, orgUuid)
       IN \E st \in PutUserAnswers(user_data) :
        /\ Reply(st, PutUserFaithful(user_data))
        /\ Sent(Req(9, "PUT", "userAttr", "admin", st,
                    {user_data.organization_id}))
        /\ remote' = IF st = 204 /\ user_data.user
                     THEN UpdateUser(remote, user_data) ELSE remote
        /\ IF st = NetErr
           THEN Crash /\ UNCHANGED loc
           ELSE /\ loc' = [loc EXCEPT !.availableRoles = {}, !.roleIdx = 1]
                /\ pc' = "g_roles_get" /\ UNCHANGED exitCode
    /\ UNCHANGED <<script, config, orgUuid, rerun, start, prev>>

\* STEP 10: GET roles/{role} for each role; a 200 appends the role to
\* available_roles
Step10_GetRole ==
    /\ script = "groups" /\ pc = "g_roles_get"
    /\ LET role == roles_groups[loc.roleIdx]
           faithful == IF role \in remote.roles THEN 200 ELSE 404
       IN \E st \in GetAnswers(faithful) :
            /\ Reply(st, faithful)
            /\ Sent(Req(10, "GET", "role", role, st,
                        IF st = 200 THEN {role} ELSE {}))
            /\ IF st = NetErr
               THEN Crash /\ UNCHANGED loc
               ELSE /\ loc' = [loc EXCEPT
                         !.availableRoles =
                             IF st = 200 THEN @ \cup {role} ELSE @,
                         !.roleIdx =
                             IF @ < Len(roles_groups) THEN @ + 1 ELSE 1]
                    /\ pc' = IF loc.roleIdx < Len(roles_groups)
                             THEN "g_roles_get" ELSE "g_roles_post"
                    /\ UNCHANGED exitCode
    /\ UNCHANGED <<script, config, orgUuid, remote, rerun, start, prev>>

\* STEP 10: POST users/{user_id}/role-mappings/realm with available_roles;
\* every status goes on to the success summary and the end of the script
Step10_AssignRoles ==
    /\ script = "groups" /\ pc = "g_roles_post"
    /\ \E st \in {204, 409, 500, NetErr} :
        /\ Reply(st, 204)
        /\ Sent(Req(10, "POST", "roleMapping", "admin", st, loc.availableRoles))
        /\ remote' = IF st = 204
                     THEN [remote EXCEPT !.userRoles = @ \cup loc.availableRoles]
                     ELSE remote
        /\ IF st = NetErr
           THEN Crash
           ELSE pc' = "done" /\ exitCode' = 0
    /\ UNCHANGED <<script, config, orgUuid, loc, rerun, start, prev>>

Groups ==
    \/ Step1_Authenticate
    \/ Step2_CheckClient \/ Step2_CreateClient \/ Step2_FetchClient
    \/ Step3_CheckRole \/ Step3_CreateRole
    \/ Step4_CheckScope \/ Step4_CreateScope \/ Step4_FetchScope
    \/ Step5_CheckMapper \/ Step5_CreateGroupMapper
    \/ Step5_CreateCustomMapper
    \/ Step6_AssignScope
    \/ Step7_CheckGroup \/ Step7_CreateGroup
    \/ Step8_FindUser
    \/ Step9_AddUserToGroup \/ Step9_GetUser \/ Step9_PutUser
    \/ Step10_GetRole \/ Step10_AssignRoles

\* --------------------------------------------------------------- fix_roles
\* module level: "if not ADMIN_EMAIL or not ADMIN_PASSWORD: ... sys.exit(1)"
Fix_CheckConfiguration ==
    /\ script = "fix_roles" /\ pc = "f_config"
    /\ IF config THEN pc' = "f_token" /\ UNCHANGED exitCode ELSE Abort
    /\ UNCHANGED <<script, config, orgUuid, loc, log, faults, remote, rerun,
                   start, prev>>

\* STEP 1: Authenticate with Keycloak; "except Exception: sys.exit(1)"
Fix_Step1_Authenticate ==
    /\ script = "fix_roles" /\ pc = "f_token"
    /\ \E st \in {200, 401, NetErr} :
        /\ Reply(st, 200)
        /\ Sent(Req(1, "POST", "token", "admin-cli", st, {}))
        /\ IF Raises(st)
           THEN Abort /\ UNCHANGED loc
           ELSE /\ loc' = [loc EXCEPT !.token = "bearer"]
                /\ pc' = "f_delete" /\ UNCHANGED exitCode
    /\ UNCHANGED <<script, config, orgUuid, remote, rerun, start, prev>>

\* STEP 2: DELETE roles/{role} for each of old_roles; 204, 404 and every
\* other status go on with the next role.  Deleting a realm role removes it
\* from the users that hold it.
Fix_Step2_DeleteRole ==
    /\ script = "fix_roles" /\ pc = "f_delete"
    /\ LET role == old_roles[loc.roleIdx]
           faithful == IF role \in remote.roles THEN 204 ELSE 404
       IN \E st \in {faithful, 500, NetErr} :
            /\ Reply(st, faithful)
            /\ Sent(Req(2, "DELETE", "role", role, st, {}))
            /\ remote' = IF st = 204
                         THEN [remote EXCEPT !.roles = @ \ {role},
                                             !.userRoles = @ \ {role}]
                         ELSE remote
            /\ IF st = NetErr
               THEN Crash /\ UNCHANGED loc
               ELSE /\ loc' = [loc EXCEPT !.roleIdx =
                                 IF @ < Len(old_roles) THEN @ + 1 ELSE 1]
                    /\ pc' = IF loc.roleIdx < Len(old_roles)
                             THEN "f_delete" ELSE "f_role_check"
                    /\ UNCHANGED exitCode
    /\ UNCHANGED <<script, config, orgUuid, rerun, start, prev>>

\* the "for role in correct_roles" loop goes to its next role, or on to step 4
Fix_Step3_Next ==
    IF loc.roleIdx < Len(correct_roles)
    THEN /\ loc' = [loc EXCEPT !.roleIdx = loc.roleIdx + 1]
         /\ pc' = "f_role_check"
    ELSE /\ loc' = [loc EXCEPT !.roleIdx = 1]
         /\ pc' = "f_find_user"

\* STEP 3: GET roles/{role}; every status but 200 goes on to the POST
Fix_Step3_CheckRole ==
    /\ script = "fix_roles" /\ pc = "f_role_check"
    /\ LET role == correct_roles[loc.roleIdx]
           faithful == IF role \in remote.roles THEN 200 ELSE 404
       IN \E st \in GetAnswers(faithful) :
            /\ Reply(st, faithful)
            /\ Sent(Req(3, "GET", "role", role, st,
                        IF st = 200 THEN {role} ELSE {}))
            /\ IF st = NetErr
               THEN Crash /\ UNCHANGED loc
               ELSE IF st = 200
               THEN Fix_Step3_Next /\ UNCHANGED exitCode
               ELSE pc' = "f_role_post" /\ UNCHANGED <<loc, exitCode>>
    /\ UNCHANGED <<script, config, orgUuid, remote, rerun, start, prev>>

\* STEP 3: POST roles; a status other than 201 prints a warning and the loop
\* goes on
Fix_Step3_CreateRole ==
    /\ script = "fix_roles" /\ pc = "f_role_post"
    /\ LET role == correct_roles[loc.roleIdx]
           exists == role \in remote.roles
       IN \E st \in PostAnswers(exists) :
            /\ Reply(st, IF exists THEN 409 ELSE 201)
            /\ Sent(Req(3, "POST", "role", role, st, {}))
            /\ remote' = IF st \in {201, 409}
                         THEN [remote EXCEPT !.roles = @ \cup {role}]
                         ELSE remote
            /\ IF st = NetErr
               THEN Crash /\ UNCHANGED loc
               ELSE Fix_Step3_Next /\ UNCHANGED exitCode
    /\ UNCHANGED <<script, config, orgUuid, rerun, start, prev>>

\* STEP 4: GET users?email=&exact=true; "if not users: sys.exit(1)";
\* users[0]["id"] of an error body raises
Fix_Step4_FindUser ==
    /\ script = "fix_roles" /\ pc = "f_find_user"
    /\ \E st \in GetAnswers(200) :
        /\ Reply(st, 200)
        /\ LET users == IF st = 200 /\ remote.user THEN {"admin"} ELSE {}
           IN  /\ Sent(Req(4, "GET", "user", "admin", st, users))
               /\ IF st # 200
                  THEN Crash /\ UNCHANGED loc
                  ELSE IF NotFound(users)
                  THEN Abort /\ UNCHANGED loc
                  ELSE /\ loc' = [loc EXCEPT !.userId = "user-id"]
                       /\ pc' = "f_roles_current" /\ UNCHANGED exitCode
    /\ UNCHANGED <<script, config, orgUuid, remote, rerun, start, prev>>

\* STEP 4: GET users/{user_id}/role-mappings/realm; current_roles is the
\* body.  The body of an error answer either is no JSON (response.json()
\* raises) or is an error object, which is truthy and is sent back in the
\* DELETE.
Fix_Step4_GetCurrentRoles ==
    /\ script = "fix_roles" /\ pc = "f_roles_current"
    /\ \E st \in GetAnswers(200), json \in BOOLEAN :
        /\ Reply(st, 200)
        /\ LET current_roles == IF st = 200 THEN remote.userRoles
                                ELSE {"error"}
           IN  /\ Sent(Req(4, "GET", "roleMapping", "admin", st,
                           IF st = 200 THEN current_roles ELSE {}))
               /\ IF st = NetErr \/ (st # 200 /\ ~json)
                  THEN Crash /\ UNCHANGED loc
                  ELSE /\ st = 200 => json
                       /\ loc' = [loc EXCEPT !.currentRoles = current_roles,
                                             !.availableRoles = {},
                                             !.roleIdx = 1]
                       /\ pc' = IF current_roles # {}
                                THEN "f_roles_delete" ELSE "f_roles_get"
                       /\ UNCHANGED exitCode
    /\ UNCHANGED <<script, config, orgUuid, remote, rerun, start, prev>>

\* STEP 4: DELETE users/{user_id}/role-mappings/realm with current_roles;
\* every status goes on
Fix_Step4_RemoveRoles ==
    /\ script = "fix_roles" /\ pc = "f_roles_delete"
    /\ LET faithful == IF loc.currentRoles = {"error"} THEN 500 ELSE 204
       IN \E st \in {faithful, 500, NetErr} :
            /\ Reply(st, faithful)
            /\ Sent(Req(4, "DELETE", "roleMapping", "admin", st,
                        loc.currentRoles))
            /\ remote' = IF st = 204
                         THEN [remote EXCEPT !.userRoles = @ \ loc.currentRoles]
                         ELSE remote
            /\ IF st = NetErr
               THEN Crash
               ELSE pc' = "f_roles_get" /\ UNCHANGED exitCode
    /\ UNCHANGED <<script, config, orgUuid, loc, rerun, start, prev>>

\* STEP 4: GET roles/{role} for each of new_roles_to_assign; a 200 appends
\* the role to available_roles; "if available_roles:" guards the POST
Fix_Step4_GetRole ==
    /\ script = "fix_roles" /\ pc = "f_roles_get"
    /\ LET role == new_roles_to_assign[loc.roleIdx]
           faithful == IF role \in remote.roles THEN 200 ELSE 404
       IN \E st \in GetAnswers(faithful) :
            /\ Reply(st, faithful)
            /\ Sent(Req(4, "GET", "role", role, st,
                        IF st = 200 THEN {role} ELSE {}))
            /\ IF st = NetErr
               THEN Crash /\ UNCHANGED loc
               ELSE LET available_roles ==
                            IF st = 200 THEN loc.availableRoles \cup {role}
                            ELSE loc.availableRoles
                        last == loc.roleIdx = Len(new_roles_to_assign)
                    IN  /\ loc' = [loc EXCEPT
                                     !.availableRoles = available_roles,
                                     !.roleIdx = IF last THEN 1 ELSE @ + 1]
                        /\ IF ~last
                           THEN pc' = "f_roles_get" /\ UNCHANGED exitCode
                           ELSE IF available_roles # {}
                           THEN pc' = "f_roles_post" /\ UNCHANGED exitCode
                           ELSE pc' = "done" /\ exitCode' = 0
    /\ UNCHANGED <<script, config, orgUuid, remote, rerun, start, prev>>

\* STEP 4: POST users/{user_id}/role-mappings/realm with available_roles;
\* every status goes on to the success summary and the end of the script
Fix_Step4_AssignRoles ==
    /\ script = "fix_roles" /\ pc = "f_roles_post"
    /\ \E st \in {204, 409, 500, NetErr} :
        /\ Reply(st, 204)
        /\ Sent(Req(4, "POST", "roleMapping", "admin", st, loc.availableRoles))
        /\ remote' = IF st = 204
                     THEN [remote EXCEPT !.userRoles = @ \cup loc.availableRoles]
                     ELSE remote
        /\ IF st = NetErr
           THEN Crash
           ELSE pc' = "done" /\ exitCode' = 0
    /\ UNCHANGED <<script, config, orgUuid, loc, rerun, start, prev>>

FixRoles ==
    \/ Fix_CheckConfiguration
    \/ Fix_Step1_Authenticate
    \/ Fix_Step2_DeleteRole
    \/ Fix_Step3_CheckRole \/ Fix_Step3_CreateRole
    \/ Fix_Step4_FindUser
    \/ Fix_Step4_GetCurrentRoles \/ Fix_Step4_RemoveRoles
    \/ Fix_Step4_GetRole \/ Fix_Step4_AssignRoles

\* -------------------------------------------------------------- check_user
\* main(): "except Exception as e: ... return 1"
Check_Raise == pc' = "done" /\ exitCode' = 1

\* get_admin_token(): POST token, raise_for_status()
Check_get_admin_token ==
    /\ script = "check_user" /\ pc = "c_token"
    /\ \E st \in {200, 401, NetErr} :
        /\ Reply(st, 200)
        /\ Sent(Req(1, "POST", "token", "admin-cli", st, {}))
        /\ IF Raises(st)
           THEN Check_Raise /\ UNCHANGED loc
           ELSE /\ loc' = [loc EXCEPT !.token = "bearer"]
                /\ pc' = "c_master" /\ UNCHANGED exitCode
    /\ UNCHANGED <<script, config, orgUuid, remote, rerun, start, prev>>

\* check_user_in_realm(token, realm, email): the first user of a 200 answer,
\* None for an empty list and for every other status
check_user_in_realm(st, present) ==
    IF st = 200 /\ present THEN {"admin"} ELSE {}

\* main(): check_user_in_realm(token, "master", ADMIN_EMAIL); the result is
\* only printed
Check_MasterRealm ==
    /\ script = "check_user" /\ pc = "c_master"
    /\ \E st \in GetAnswers(200), inMaster \in BOOLEAN :
        /\ Reply(st, 200)
        /\ st # 200 => inMaster
        /\ Sent(Req(2, "GET", "realmUser", "master", st,
                    check_user_in_realm(st, inMaster)))
        /\ IF st = NetErr
           THEN Check_Raise
           ELSE pc' = "c_spooliq" /\ UNCHANGED exitCode
    /\ UNCHANGED <<script, config, orgUuid, loc, remote, rerun, start, prev>>

\* main(): check_user_in_realm(token, "spooliq", ADMIN_EMAIL); found returns
\* 0, everything else goes on to create the user
Check_SpooliqRealm ==
    /\ script = "check_user" /\ pc = "c_spooliq"
    /\ \E st \in GetAnswers(200) :
        /\ Reply(st, 200)
        /\ LET spooliq_user == check_user_in_realm(st, remote.user)
           IN  /\ Sent(Req(3, "GET", "realmUser", "spooliq", st, spooliq_user))
               /\ IF st = NetErr
                  THEN Check_Raise
                  ELSE IF spooliq_user # {}
                  THEN pc' = "done" /\ exitCode' = 0
                  ELSE pc' = "c_create" /\ UNCHANGED exitCode
    /\ UNCHANGED <<script, config, orgUuid, loc, remote, rerun, start, prev>>

\* create_user_in_spooliq(): POST users; 201 takes the id from the Location
\* header, or looks the user up when the header is missing; every other
\* status returns None and main() returns 1
Check_create_user_in_spooliq ==
    /\ script = "check_user" /\ pc = "c_create"
    /\ \E st \in PostAnswers(remote.user), location \in BOOLEAN :
        /\ ReplyWith(st, IF remote.user THEN 409 ELSE 201, location)
        /\ Sent(Req(4, "POST", "user", "admin", st, {}))
        /\ remote' = IF st \in {201, 409}
                     THEN [remote EXCEPT !.user = TRUE, !.userProfile = 1]
                     ELSE remote
        /\ IF st = NetErr
           THEN Check_Raise /\ UNCHANGED loc
           ELSE IF st # 201
           THEN pc' = "done" /\ exitCode' = 1 /\ UNCHANGED loc
           ELSE IF location
           THEN /\ loc' = [loc EXCEPT !.userId = "user-id"]
                /\ pc' = "c_password" /\ UNCHANGED exitCode
           ELSE pc' = "c_fallback" /\ UNCHANGED <<loc, exitCode>>
    /\ UNCHANGED <<script, config, orgUuid, rerun, start, prev>>

\* create_user_in_spooliq(): "Fallback: search for user"
Check_create_user_fallback ==
    /\ script = "check_user" /\ pc = "c_fallback"
    /\ \E st \in GetAnswers(200) :
        /\ Reply(st, 200)
        /\ LET user == check_user_in_realm(st, remote.user)
           IN  /\ Sent(Req(4, "GET", "realmUser", "spooliq", st, user))
               /\ IF st = NetErr
                  THEN Check_Raise /\ UNCHANGED loc
                  ELSE IF user = {}
                  THEN pc' = "done" /\ exitCode' = 1 /\ UNCHANGED loc
                  ELSE /\ loc' = [loc EXCEPT !.userId = "user-id"]
                       /\ pc' = "c_password" /\ UNCHANGED exitCode
    /\ UNCHANGED <<script, config, orgUuid, remote, rerun, start, prev>>

\* set_user_password(): PUT users/{user_id}/reset-password; main() returns 0
\* whatever the status
Check_set_user_password ==
    /\ script = "check_user" /\ pc = "c_password"
    /\ \E st \in PutAnswers :
        /\ Reply(st, 204)
        /\ Sent(Req(5, "PUT", "password", "admin", st, {}))
        /\ IF st = NetErr
           THEN Check_Raise
           ELSE pc' = "done" /\ exitCode' = 0
    /\ UNCHANGED <<script, config, orgUuid, loc, remote, rerun, start, prev>>

CheckUser ==
    \/ Check_get_admin_token
    \/ Check_MasterRealm
    \/ Check_SpooliqRealm
    \/ Check_create_user_in_spooliq \/ Check_create_user_fallback
    \/ Check_set_user_password

\* ------------------------------------------------------------ what is printed
\* What the script prints about the request of log entry e when it is
\* answered with an error status: a subset of {"step", "status", "body"}.
\* print(f"... {e}") of a requests HTTPError names the status; the
\* "if hasattr(e, 'response') and e.response:" branches that would print
\* e.response.text are never taken, a Response with an error status being
\* falsy; the bare "except: pass" of the lookups prints nothing.
Report_multitenant(e) ==
    IF e.op = "GET" /\ e.kind \in {"scope", "mapper"} THEN {}
    ELSE IF e.op = "GET" /\ e.kind = "role" /\ e.step = 3 THEN {}
    ELSE {"step", "status"}

\* setup_keycloak_groups.py: the token request is the only one in a try
\* block; the client, scope and group creations print the status and
\* response.text, as does the group-mapper creation; the other requests
\* print the status, or nothing; a lookup that is answered with an error
\* prints nothing or ends in a traceback
Report_groups(e) ==
    IF e.kind = "token" THEN {"step", "status"}
    ELSE IF e.op = "GET" THEN {}
    ELSE IF e.kind \in {"client", "scope", "group"}
    THEN {"step", "status", "body"}
    ELSE IF e.kind = "mapper"
    THEN IF e.key = "organization-group-mapper"
         THEN {"step", "status", "body"} ELSE {}
    ELSE IF e.kind = "userAttr" THEN {}
    ELSE {"step", "status"}

\* fix_keycloak_roles.py
Report_fix_roles(e) ==
    IF e.kind = "token" THEN {"step", "status"}
    ELSE IF e.op = "GET" THEN {}
    ELSE IF e.op = "DELETE"
    THEN IF e.kind = "role" THEN {"step", "status"} ELSE {}
    ELSE {"step", "status", "body"}

\* check_user_realm.py: main() prints the exception of a failed token
\* request; a failed lookup is printed as "user not found", a failed
\* creation or password reset without status or body
Report_check_user(e) ==
    IF e.kind = "token" THEN {"status"}
    ELSE IF e.op = "GET" THEN {}
    ELSE {"step"}

Report(s, e) ==
    CASE s = "multitenant" -> Report_multitenant(e)
      [] s = "groups" -> Report_groups(e)
      [] s = "fix_roles" -> Report_fix_roles(e)
      [] s = "check_user" -> Report_check_user(e)

\* ---------------------------------------------------------------- the runs
Scripts == {"multitenant", "groups", "fix_roles", "check_user"}

\* the tenant identifiers a run of script s may draw: uuid.uuid4() in the two
\* setup scripts; the other scripts have no tenant identifier
RunUuids(s) == IF s \in {"multitenant", "groups"} THEN Uuids ELSE {1}

\* first position of a script
EntryPoint_SkipsAuth(s) ==
    CASE s = "multitenant" -> "client_check"
      [] s = "groups" -> "g_client_check"
      [] s = "fix_roles" -> "f_delete"
      [] s = "check_user" -> "c_master"
EntryPoint(s) ==
    CASE s = "multitenant" -> "config"
      [] s = "groups" -> "g_token"
      [] s = "fix_roles" -> "f_config"
      [] s = "check_user" -> "c_token"

\* The realms a first run may find.
EmptyRealm(u) ==
    Realm(FALSE, {}, FALSE, {}, FALSE, {}, NoGroupOrg, u, 0, {}, {})
AttributeStyleRealm(u) ==
    Realm(TRUE, Range(roles), TRUE, {"organization-id-mapper"}, TRUE, {},
          NoGroupOrg, u, IF u THEN 1 ELSE 0, IF u THEN Range(roles) ELSE {}, {})
GroupStyleRealm(u) ==
    Realm(TRUE, RoleNames, TRUE,
          {"organization-group-mapper", "organization-id-from-group"}, TRUE,
          {"spooliq-platform"},
          [NoGroupOrg EXCEPT !["spooliq-platform"] = 1],
          u, IF u THEN 1 ELSE 0, IF u THEN RoleNames ELSE {},
          IF u THEN {"spooliq-platform"} ELSE {})
BothStylesRealm(u) ==
    [GroupStyleRealm(u) EXCEPT !.mappers = MapperNames]
PartialRealm ==
    Realm(TRUE, {"User"}, TRUE, {}, FALSE, {}, NoGroupOrg, TRUE, 0, {}, {})
LookalikeGroupRealm ==
    Realm(FALSE, {}, FALSE, {}, FALSE, {"spooliq-platform-eu"},
          [NoGroupOrg EXCEPT !["spooliq-platform-eu"] = 2], TRUE, 0, {}, {})

\* a realm that still has the role names fix_keycloak_roles.py replaces
LegacyRealm ==
    Realm(TRUE, {"user", "adm"}, FALSE, {}, FALSE, {}, NoGroupOrg, TRUE, 0,
          {"user", "adm"}, {})

InitRealms ==
    {EmptyRealm(u) : u \in BOOLEAN}
    \cup {AttributeStyleRealm(u) : u \in BOOLEAN}
    \cup {GroupStyleRealm(u) : u \in BOOLEAN}
    \cup {BothStylesRealm(u) : u \in BOOLEAN}
    \cup {PartialRealm, LookalikeGroupRealm, LegacyRealm}

Init ==
    /\ script \in Scripts
    /\ config \in BOOLEAN
    /\ orgUuid \in RunUuids(script)
    /\ pc = EntryPoint(script)
    /\ loc = InitLoc
    /\ exitCode = -1
    /\ log = <<>>
    /\ faults = 0
    /\ remote \in InitRealms
    /\ rerun = FALSE
    /\ start = remote
    /\ prev = <<>>

\* the operator starts the same script again: a new process, a new uuid4
StartRun ==
    /\ pc = "done" /\ ~rerun
    /\ prev' = Append(prev, [exit |-> exitCode, remote |-> remote,
                             uuid |-> orgUuid, faults |-> faults,
                             start |-> start,
                             interrupted |-> loc.interrupted])
    /\ rerun' = TRUE
    /\ orgUuid' \in RunUuids(script)
    /\ pc' = EntryPoint(script)
    /\ loc' = InitLoc
    /\ exitCode' = -1
    /\ log' = <<>>
    /\ start' = remote
    /\ UNCHANGED <<script, config, faults, remote>>

\* exit status of a process that is interrupted from outside: main() of
\* setup_keycloak_multitenant.py catches KeyboardInterrupt around run() and
\* exits 1; its module-level code and the other scripts have no handler and
\* end on the signal
InterruptStatus ==
    IF script = "multitenant" /\ pc # "config" THEN 1 ELSE 130

\* the process is interrupted between two requests
Interrupt ==
    /\ pc # "done" /\ faults < MaxFaults
    /\ faults' = faults + 1
    /\ loc' = [loc EXCEPT !.interrupted = TRUE]
    /\ pc' = "done" /\ exitCode' = InterruptStatus
    /\ UNCHANGED <<script, config, orgUuid, log, remote, rerun, start, prev>>

Next ==
    Multitenant \/ Groups \/ FixRoles \/ CheckUser \/ Interrupt \/ StartRun

Spec == Init /\ [][Next]_vars

TypeOK ==
    /\ script \in Scripts
    /\ orgUuid \in Uuids
    /\ config \in BOOLEAN
    /\ exitCode \in {-1, 0, 1, 130}
    /\ faults \in 0..MaxFaults
    /\ rerun \in BOOLEAN
    /\ (pc = "done") = (exitCode # -1)

\* ---------------------------------------------------------- the properties
Entries == 1..Len(log)

\* the process runs one of the two setup scripts, which provision the realm
\* from client to role assignment
Orchestration == script \in {"multitenant", "groups"}

\* the process runs one of the scripts that configure the realm for the
\* existing user; check_user_realm.py is the helper that looks the user up
Provisioning == script \in {"multitenant", "groups", "fix_roles"}
IsCreate(e) ==
    e.op = "POST" /\ e.kind \in {"client", "role", "scope", "mapper", "group"}
Count(op, kind) ==
    Cardinality({i \in Entries : log[i].op = op /\ log[i].kind = kind})

\* every answer of the run so far is a success, a 409 to a creation request,
\* or the 404 of a role that does not exist yet, and the target user exists
OnlyConflicts ==
    /\ Len(log) > 0 /\ ~loc.interrupted
    /\ \A i \in Entries :
        /\ \/ Success(log[i].st)
           \/ IsCreate(log[i]) /\ log[i].st = 409
           \/ log[i].op = "GET" /\ log[i].kind = "role" /\ log[i].st = 404
        /\ log[i].kind = "user" => log[i].names # {}

\* the creation or assignment request of entry e ended as Failed
Failed(e) ==
    /\ e.op \in {"POST", "PUT"} /\ e.kind # "token"
    /\ ~Success(e.st) /\ e.st # 409
    /\ ~(e.kind = "defaultScope" /\ e.st = 404)

\* the resources of the script's style all exist in realm r, and so does
\* the target user
Provisioned(r) ==
    /\ r.client /\ r.scope /\ r.user
    /\ IF script = "multitenant"
       THEN /\ Range(roles) \subseteq r.roles
            /\ "organization-id-mapper" \in r.mappers
       ELSE /\ Range(roles_groups) \subseteq r.roles
            /\ {"organization-group-mapper", "organization-id-from-group"}
                   \subseteq r.mappers
            /\ "spooliq-platform" \in r.groups

\* C1: when the script is run twice in succession and every request is
\* answered by the realm itself, the second run succeeds like the first and
\* leaves the realm exactly as the first run left it, organization_id
\* included.
C1_Idempotent ==
    (pc = "done" /\ rerun /\ faults = 0 /\ prev[1].exit = 0)
        => (exitCode = 0 /\ remote = prev[1].remote)

\* C2: once a lookup of the run has answered with a resource of some kind
\* and natural key, the run issues no creation request for that kind and key.
C2_NoRedundantCreation ==
    \A i, j \in Entries :
        ~ /\ i < j
          /\ log[i].op = "GET" /\ log[i].st = 200
          /\ IsCreate(log[j])
          /\ log[j].kind = log[i].kind
          /\ log[j].key \in log[i].names

\* C3: after a creation or assignment request has ended as Failed, no later
\* step issues a request, and the process exits non-zero.
C3_FailFast ==
    \A i \in Entries :
        Failed(log[i]) =>
            /\ \A j \in Entries : j > i => log[j].step = log[i].step
            /\ pc = "done" => exitCode # 0

\* C4: when the token request is answered with a non-2xx status or fails on
\* the network, it is the only request of the run and the process has exited
\* with status 1; no run issues a second token request.
C4_AuthFailureStops ==
    /\ (Len(log) >= 1 /\ ~Success(log[1].st))
           => (Len(log) = 1 /\ pc = "done" /\ exitCode = 1)
    /\ Count("POST", "token") <= 1
    /\ \A i \in Entries : log[i].kind = "token" => i = 1

C4_Witness ==
    /\ pc = "done" /\ Len(log) = 1
    /\ log[1].kind = "token" /\ log[1].st = 401

\* C5: when the user lookup answers with no match, it is the last request of
\* the run: no user-attribute, group-membership or role-mapping request is
\* issued, and the process has exited with status 1.
C5_MissingUserGuard ==
    \A i \in Entries :
        (log[i].kind = "user" /\ log[i].st = 200 /\ log[i].names = {})
            => /\ i = Len(log) /\ pc = "done" /\ exitCode = 1
               /\ \A j \in Entries :
                    log[j].kind \notin {"userAttr", "membership", "roleMapping"}

C5_Witness ==
    /\ pc = "done" /\ exitCode = 1 /\ Len(log) > 1
    /\ log[Len(log)].kind = "user" /\ log[Len(log)].st = 200
    /\ log[Len(log)].names = {}
    /\ Count("PUT", "defaultScope") = 1

\* C6: a creation request answered with 409 does not end the run, and a run
\* whose only unusual answers are such 409s exits 0.
C6_ConflictIsSuccess ==
    /\ \A i \in Entries :
         (IsCreate(log[i]) /\ log[i].st = 409 /\ i = Len(log)
          /\ ~loc.interrupted) => pc # "done"
    /\ (pc = "done" /\ OnlyConflicts) => exitCode = 0

\* C7: when a realm-role creation request was answered with 409 and nothing
\* else went wrong, the finished run has sent a role-mapping request whose
\* payload holds that role.
C7_ConflictRoleAssigned ==
    \A i \in Entries :
        (pc = "done" /\ OnlyConflicts
         /\ log[i].op = "POST" /\ log[i].kind = "role" /\ log[i].st = 409)
            => \E j \in Entries :
                 /\ j > i /\ log[j].kind = "roleMapping"
                 /\ log[i].key \in log[j].names

\* C8: the run goes on after the default-scope PUT both when it is answered
\* 204 and when it is answered 404.
C8_ScopeAssignQuirk ==
    \A i \in Entries :
        (log[i].kind = "defaultScope" /\ log[i].st \in {204, 404})
            => ~(i = Len(log) /\ pc = "done" /\ ~loc.interrupted)

\* C9: a run that starts on a realm where everything it provisions already
\* exists, and whose requests are all answered by the realm itself, issues no
\* creation request and exits 0.
C9_ScenarioB ==
    (Orchestration /\ pc = "done" /\ faults = 0 /\ Len(log) > 0
        /\ Provisioned(start))
        => (exitCode = 0 /\ \A i \in Entries : ~IsCreate(log[i]))

\* a finished run on the empty realm with the target user, every request
\* answered by the realm itself
ScenarioA ==
    /\ Orchestration
    /\ pc = "done" /\ faults = 0 /\ Len(log) > 0 /\ start = EmptyRealm(TRUE)

ConfiguredRoles == IF script = "multitenant" THEN roles ELSE roles_groups

\* C10 as stated: on the empty realm with the target user the run issues one
\* client creation, one creation per configured role, one scope creation,
\* one protocol-mapper creation, one default-scope assignment, one
\* user-attribute update and one role-mapping batch, and exits 0.
C10_ScenarioA_Original ==
    ScenarioA =>
        /\ exitCode = 0
        /\ Count("POST", "client") = 1
        /\ Count("POST", "role") = Len(ConfiguredRoles)
        /\ Count("POST", "scope") = 1
        /\ Count("POST", "mapper") = 1
        /\ Count("PUT", "defaultScope") = 1
        /\ Count("PUT", "userAttr") = 1
        /\ Count("POST", "roleMapping") = 1

\* C10 amended: as above, but the group style issues two protocol-mapper
\* creations (organization-group-mapper and organization-id-from-group), and
\* also one group creation and one group-membership request; the attribute
\* style issues one mapper creation and none of the group requests.
C10_ScenarioA ==
    ScenarioA =>
        /\ exitCode = 0
        /\ Count("POST", "client") = 1
        /\ Count("POST", "role") = Len(ConfiguredRoles)
        /\ Count("POST", "scope") = 1
        /\ Count("POST", "mapper") = IF script = "multitenant" THEN 1 ELSE 2
        /\ Count("POST", "group") = IF script = "multitenant" THEN 0 ELSE 1
        /\ Count("PUT", "membership") = IF script = "multitenant" THEN 0 ELSE 1
        /\ Count("PUT", "defaultScope") = 1
        /\ Count("PUT", "userAttr") = 1
        /\ Count("POST", "roleMapping") = 1

C10_Witness ==
    /\ ScenarioA /\ script = "groups" /\ exitCode = 0
    /\ Count("POST", "mapper") = 2

\* the token request of the run failed
AuthFailed == Len(log) >= 1 /\ log[1].kind = "token" /\ ~Success(log[1].st)

\* the user lookup of the run answered with no match
UserAbsent ==
    \E i \in Entries :
        log[i].kind = "user" /\ log[i].op = "GET" /\ log[i].st = 200
            /\ log[i].names = {}

\* C11: a process that ended by itself has exit status 0 only if no creation
\* or assignment request of the run ended as Failed, and has exit status 1
\* whenever the token request failed, the user lookup found no user, or a
\* creation or assignment request ended as Failed.
C11_ExitCodes ==
    (Provisioning /\ pc = "done" /\ ~loc.interrupted) =>
        /\ exitCode = 0 => \A i \in Entries : ~Failed(log[i])
        /\ (AuthFailed \/ UserAbsent \/ \E i \in Entries : Failed(log[i]))
               => exitCode = 1

\* the step of a script in which the roles are assigned to the user; its
\* role lookups belong to the assignment, not to the role step
AssignStep ==
    CASE script = "multitenant" -> 9
      [] script = "groups" -> 10
      [] script = "fix_roles" -> 4
      [] script = "check_user" -> 0

\* position of the request of entry e in the order authenticate, client,
\* roles, client scope, protocol mappers, scope assignment, user lookup,
\* tenant attribute or group membership, role assignment; 0 for a request
\* that is none of these
Phase(e) ==
    CASE e.kind = "token" -> 1
      [] e.kind = "client" -> 2
      [] e.kind = "role" /\ e.step # AssignStep -> 3
      [] e.kind = "scope" -> 4
      [] e.kind = "mapper" -> 5
      [] e.kind = "defaultScope" -> 6
      [] e.kind = "user" /\ e.op = "GET" -> 7
      [] e.kind \in {"userAttr", "membership"} -> 8
      [] e.kind = "role" /\ e.step = AssignStep -> 9
      [] e.kind = "roleMapping" -> 9
      [] OTHER -> 0

\* C12: the first request of every run is the token request, and the
\* requests of a run follow the order authenticate, client, roles, client
\* scope, protocol mappers, scope assignment, user lookup, tenant attribute
\* or group membership, role assignment: no request of an earlier step is
\* issued after a request of a later step.
C12_StepOrder ==
    /\ Len(log) >= 1 => log[1].kind = "token"
    /\ \A i, j \in Entries :
        (i < j /\ Phase(log[i]) # 0 /\ Phase(log[j]) # 0)
            => /\ Phase(log[i]) <= Phase(log[j])
               /\ log[i].step <= log[j].step

C12_Witness ==
    /\ script = "groups" /\ pc = "done" /\ exitCode = 0
    /\ \A p \in 1..9 : \E i \in Entries : Phase(log[i]) = p
    /\ \E i \in Entries : log[i].kind = "membership"

\* the realms an uninterrupted run of the script, with every request answered
\* by the realm itself, leaves behind when it starts on realm r (which holds
\* the target user) with tenant identifier u; the group script takes
\* existing_groups[0] of the group search, or creates the group
FinalRealms(r, u) ==
    IF script = "multitenant"
    THEN {[r EXCEPT !.client = TRUE,
                    !.roles = @ \cup Range(roles),
                    !.scope = TRUE,
                    !.mappers = @ \cup {"organization-id-mapper"},
                    !.defaultScope = TRUE,
                    !.userOrg = u,
                    !.userRoles = @ \cup Range(roles)]}
    ELSE LET mappers ==
                 r.mappers
                 \cup (IF \E m \in r.mappers : ContainsOrganization(m)
                       THEN {} ELSE {"organization-group-mapper"})
                 \cup {"organization-id-from-group"}
             withGroup(g) ==
                 [r EXCEPT !.client = TRUE,
                           !.roles = @ \cup Range(roles_groups),
                           !.scope = TRUE,
                           !.mappers = mappers,
                           !.defaultScope = TRUE,
                           !.groups = @ \cup {g},
                           !.groupOrg[g] = IF g \in r.groups THEN @ ELSE u,
                           !.userGroups = @ \cup {g},
                           !.userOrg = u,
                           !.userRoles = @ \cup Range(roles_groups)]
         IN  IF SearchMatches(r.groups) # {}
             THEN {withGroup(g) : g \in SearchMatches(r.groups)}
             ELSE {withGroup("spooliq-platform")}

\* FinalRealms is what the runs of the model do
FinalRealms_Sound ==
    (Orchestration /\ pc = "done" /\ faults = 0 /\ Len(log) > 0 /\ start.user)
        => (exitCode = 0 /\ remote \in FinalRealms(start, orgUuid))

\* C13: when a run of a setup script was interrupted after some of its
\* requests, and nothing else went wrong, a second run that starts on the
\* realm the first one left, with every request answered by the realm
\* itself, exits 0 and leaves the realm in a state that an uninterrupted run
\* from the first run's starting realm leaves.
C13_ConvergesAfterInterrupt ==
    (/\ Orchestration /\ pc = "done" /\ rerun
     /\ prev[1].interrupted /\ prev[1].faults = 1 /\ faults = 1
     /\ prev[1].start.user /\ Len(log) > 0)
        => /\ exitCode = 0
           /\ \E u \in Uuids : remote \in FinalRealms(prev[1].start, u)

\* the resource that the request of entry e is about exists in the realm
Exists(e) ==
    CASE e.kind = "client" -> remote.client
      [] e.kind = "role" -> e.key \in remote.roles
      [] e.kind = "scope" -> remote.scope
      [] e.kind = "mapper" -> e.key \in remote.mappers
      [] e.kind = "group" -> e.key \in remote.groups
      [] OTHER -> FALSE

\* the creation request of entry j lost a race: the lookup of the same kind
\* earlier in the run did not find the resource, and the creation was
\* answered 409 because another run had created it in between
RaceLost(j) ==
    /\ IsCreate(log[j]) /\ log[j].st = 409
    /\ \E i \in 1..(j - 1) :
        /\ log[i].op = "GET" /\ log[i].kind = log[j].kind
        /\ \/ log[i].st = 404
           \/ Success(log[i].st) /\ log[j].key \notin log[i].names

\* C14: a run that loses the race for a resource to a concurrent run (its
\* lookup misses, its creation request is answered 409), and in which nothing
\* else goes wrong, exits 0, and the resource exists in the realm.
C14_ConcurrentRuns ==
    \A j \in Entries :
        (pc = "done" /\ OnlyConflicts /\ RaceLost(j))
            => (exitCode = 0 /\ Exists(log[j]))

\* C15: the tenant identifier does not change while a run is under way, and
\* every request of the run that carries a tenant identifier (the creation
\* of the tenant group, the update of the user's organization_id attribute)
\* carries the identifier of the run.
C15_TenantIdStable ==
    /\ [](\A i \in Entries :
            \/ log[i].op = "POST" /\ log[i].kind = "group"
            \/ log[i].op = "PUT" /\ log[i].kind = "userAttr"
            => log[i].names = {orgUuid})
    /\ [][pc # "done" => orgUuid' = orgUuid]_vars

C15_Witness ==
    /\ script = "groups" /\ pc = "done" /\ exitCode = 0
    /\ \E i, j \in Entries :
        /\ i < j
        /\ log[i].op = "POST" /\ log[i].kind = "group" /\ log[i].st = 201
        /\ log[j].op = "PUT" /\ log[j].kind = "userAttr" /\ log[j].st = 204
        /\ log[i].names = log[j].names
    /\ remote.groupOrg["spooliq-platform"] = remote.userOrg

\* C16: a process started without the administrator email or password in
\* its environment sends no request at all, and when it ends by itself its
\* exit status is 1.
C16_MissingConfiguration ==
    ~config =>
        /\ Len(log) = 0
        /\ (pc = "done" /\ ~loc.interrupted) => exitCode = 1

\* the lookup of entry i is about the resource that entry j creates
LookupFor(i, j) ==
    /\ i < j
    /\ log[i].op = "GET" /\ log[i].kind = log[j].kind
    /\ log[i].step = log[j].step

\* Checking -> Found is final, and Creating is entered from Checking only:
\* every creation request follows a lookup of its step that did not find the
\* resource, and no resource gets two creation requests
C17_Transitions ==
    \A j \in Entries :
        IsCreate(log[j]) =>
            /\ \E i \in Entries : LookupFor(i, j)
            /\ \A i \in Entries :
                 LookupFor(i, j) => log[j].key \notin log[i].names
            /\ \A i \in Entries :
                 (IsCreate(log[i]) /\ log[i].kind = log[j].kind
                  /\ log[i].key = log[j].key) => i = j

\* Created and ConflictExists are terminal-success: the run goes on after them
C17_TerminalSuccess ==
    \A i \in Entries :
        (IsCreate(log[i]) /\ log[i].st \in {201, 409} /\ i = Len(log)
         /\ ~loc.interrupted) => pc # "done"

\* Failed is terminal-failure: no later step sends a request and the exit
\* status is not 0
C17_FailedHalts ==
    \A i \in Entries :
        (IsCreate(log[i]) /\ Failed(log[i])) =>
            /\ \A j \in Entries : j > i => log[j].step = log[i].step
            /\ pc = "done" => exitCode # 0

\* C17: in a run of a setup script every resource is looked up and then
\* either found or created; a creation request is sent once, and only after
\* a lookup that did not find the resource; the run goes on after Created
\* and after ConflictExists (409), and after Failed no later step sends a
\* request and the exit status is not 0.
C17_ResourceStateMachine ==
    Orchestration =>
        (C17_Transitions /\ C17_TerminalSuccess /\ C17_FailedHalts)

\* the finished run has gone through every step of its script, up to the
\* role assignment, and has exit status 0
RanAllSteps ==
    /\ exitCode = 0
    /\ \A s \in 1..AssignStep : \E i \in Entries : log[i].step = s

\* the resource steps of the run ended as Found or Created only: every
\* request was answered by the realm itself
C18_FoundOrCreated ==
    (Orchestration /\ pc = "done" /\ OnlyConflicts /\ faults = 0)
        => RanAllSteps

\* C18: a finished run of a setup script in which every resource step ended
\* as Found, Created or ConflictExists (409), and nothing else went wrong,
\* has gone through all the steps and has exit status 0, whichever of the
\* three outcomes each step had.
C18_OutcomeIndistinguishable ==
    (Orchestration /\ pc = "done" /\ OnlyConflicts) => RanAllSteps

\* the request of entry e was answered with a failure status: an error
\* status that is not one of the answers a run reckons with (404 to the
\* lookup of a role, 409 to a creation or to the role assignment, 404 to the
\* scope assignment)
FailureAnswer(e) ==
    /\ e.st >= 400
    /\ ~(e.op = "GET" /\ e.kind = "role" /\ e.st = 404)
    /\ ~(e.op = "DELETE" /\ e.st = 404)
    /\ ~(IsCreate(e) /\ e.st = 409)
    /\ ~(e.kind = "roleMapping" /\ e.st = 409)
    /\ ~(e.kind = "defaultScope" /\ e.st = 404)

\* C19: for every request of a run that is answered with a failure status,
\* the script prints a report that names the step, the HTTP status and the
\* response body.
C19_NothingFailsSilently ==
    \A i \in Entries :
        FailureAnswer(log[i])
            => Report(script, log[i]) = {"step", "status", "body"}

\* the weaker statement: no failure answer goes unreported
C19_SomethingPrinted ==
    \A i \in Entries :
        FailureAnswer(log[i]) => Report(script, log[i]) # {}

\* a lookup of the target user in the realm spooliq answered with no match
UserLookupMissed ==
    \E i \in Entries :
        /\ log[i].op = "GET" /\ log[i].st = 200 /\ log[i].names = {}
        /\ \/ log[i].kind = "user"
           \/ log[i].kind = "realmUser" /\ log[i].key = "spooliq"

UserCreationSent ==
    \E i \in Entries : log[i].op = "POST" /\ log[i].kind = "user"

Consumes(p) ==
    CASE p \in {"mapper_check", "mapper_post", "g_mapper_check",
                "g_mapper_post", "g_custom_mapper_post"} -> {"scopeId"}
      [] p \in {"assign_scope", "g_assign_scope"} -> {"clientUuid", "scopeId"}
      [] p = "g_join_group" -> {"userId", "groupId"}
      [] p \in {"attr_get", "attr_put", "roles_post", "g_attr_get",
                "g_attr_put", "g_roles_post", "f_roles_current",
                "f_roles_delete", "f_roles_post", "c_password"} -> {"userId"}
      [] OTHER -> {}

\* the kind of request that yields identifier f
ProducedBy(f) ==
    CASE f = "clientUuid" -> {"client"}
      [] f = "scopeId" -> {"scope"}
      [] f = "groupId" -> {"group"}
      [] f = "userId" -> {"user", "realmUser"}

\* an earlier request of this run was answered with the resource that
\* identifier f names: a lookup that lists it, or for the group and the
\* user, whose id is read from the Location header, its creation with 201
Produced(f) ==
    \E i \in Entries :
        /\ log[i].kind \in ProducedBy(f)
        /\ \/ log[i].op = "GET" /\ log[i].st = 200 /\ log[i].names # {}
           \/ /\ f \in {"groupId", "userId"}
              /\ log[i].op = "POST" /\ log[i].st = 201

C22_SingleCredential ==
    Len(log) >= 1 =>
        /\ log[1].kind = "token" /\ log[1].auth = "none"
        /\ \A i \in Entries : i > 1 =>
             /\ log[i].kind # "token"
             /\ log[i].auth = "bearer"
             /\ Success(log[1].st)

C22_Witness ==
    /\ script = "multitenant" /\ pc = "done" /\ exitCode = 0
    /\ Len(log) >= 9 /\ log[Len(log)].kind = "roleMapping"
    /\ log[Len(log)].auth = "bearer"

\* the local variable that holds the id of a resource of kind k
IdField(k) ==
    CASE k = "client" -> "clientUuid"
      [] k = "scope" -> "scopeId"
      [] k = "group" -> "groupId"
      [] k = "user" -> "userId"

\* entry i is the creation of a resource whose id later requests need,
\* answered 201
Created(i) ==
    /\ log[i].op = "POST" /\ log[i].st = 201
    /\ log[i].kind \in {"client", "scope", "group", "user"}

C24_TenantAgreement ==
    (script = "groups" /\ pc = "done" /\ exitCode = 0 /\ ~loc.interrupted)
        => remote.groupOrg[loc.groupId] = remote.userOrg

\* C25: when a run of the group style has ended with exit status 0, the
\* scope organization contains the mapper organization-group-mapper,
\* whatever mappers the scope contained before the run.
C25_Coexistence ==
    (script = "groups" /\ pc = "done" /\ exitCode = 0 /\ ~loc.interrupted)
        => "organization-group-mapper" \in remote.mappers

\* the attribute step of the run has sent its PUT and the service has
\* answered 204
AttributeWritten ==
    /\ script \in {"multitenant", "groups"}
    /\ \E i \in Entries :
        log[i].op = "PUT" /\ log[i].kind = "userAttr" /\ log[i].st = 204

\* C26: the PUT of the attribute step carries the user representation the
\* preceding GET returned with organization_id set to the uuid of the run and
\* nothing else changed; once it is answered 204 the user's other fields and
\* attributes are those the user had before the run, and the PUT names the
\* user that was looked up.
C26_AttributeFrame ==
    /\ \A i \in Entries :
        (log[i].op = "PUT" /\ log[i].kind = "userAttr") =>
            /\ i > 1 /\ log[i - 1].op = "GET" /\ log[i - 1].kind = "userAttr"
            /\ log[i].key = "admin" /\ log[i].names = {orgUuid}
    /\ AttributeWritten =>
            /\ loc.user_data.user
            /\ remote.userProfile = loc.user_data.profile
            /\ remote.userProfile = start.userProfile
            /\ remote.userOrg = orgUuid
            /\ remote.user = start.user

C26_Witness ==
    /\ AttributeWritten /\ pc = "done" /\ exitCode = 0
    /\ start.userOrg # orgUuid /\ start.userProfile = 1
    /\ remote.userOrg = orgUuid

\* entry i is the lookup of assign_roles_to_user
RolesListed(i) ==
    /\ log[i].op = "GET" /\ log[i].kind = "role" /\ log[i].key = "*"

\* C27: in the attribute style the role-mapping POST is sent only after a
\* lookup that found PlatformAdmin, OrgAdmin and User, and carries the three;
\* after a lookup that did not find all three no request follows and the run
\* ends with a non-zero exit status.
C27_AllOrNothing ==
    script = "multitenant" =>
        \A i \in Entries :
            /\ (log[i].op = "POST" /\ log[i].kind = "roleMapping") =>
                   /\ log[i].names = Range(roles)
                   /\ i > 1 /\ RolesListed(i - 1)
                   /\ log[i - 1].st = 200
                   /\ log[i - 1].names = Range(roles)
            /\ (RolesListed(i) /\ log[i].names # Range(roles)) =>
                   /\ i = Len(log)
                   /\ pc = "done" /\ exitCode = 1

C27_Witness ==
    /\ script = "multitenant" /\ pc = "done" /\ exitCode = 1
    /\ Len(log) >= 1 /\ RolesListed(Len(log))
    /\ log[Len(log)].st = 200
    /\ Cardinality(log[Len(log)].names) = 2

\* a run of fix_keycloak_roles.py has ended by itself and every request of
\* the process so far got the answer of a working service
RepairDone ==
    /\ script = "fix_roles" /\ pc = "done" /\ exitCode = 0
    /\ Len(log) > 0 /\ faults = 0

\* C28: after a run of fix_keycloak_roles.py in which every call succeeds the
\* roles user and adm do not exist, PlatformAdmin, OrgAdmin, Owner and User
\* exist, and the user's role mappings are exactly these four; a second run
\* from that state ends in the same state.
C28_RoleRepairEndState ==
    RepairDone =>
        /\ remote.roles \cap {"user", "adm"} = {}
        /\ Range(correct_roles) \subseteq remote.roles
        /\ remote.userRoles = Range(correct_roles)
        /\ rerun => remote = prev[1].remote

C28_Witness ==
    /\ RepairDone /\ rerun
    /\ prev[1].start.roles = {"user", "adm"}
    /\ prev[1].start.userRoles = {"user", "adm"}
    /\ remote.userRoles = {"PlatformAdmin", "OrgAdmin", "Owner", "User"}
    /\ \E i \in Entries :
        log[i].op = "DELETE" /\ log[i].kind = "role" /\ log[i].st = 204

\* entry i is a role creation of create_roles that raised
RoleCreationFailed(i) ==
    /\ script = "multitenant"
    /\ log[i].op = "POST" /\ log[i].kind = "role" /\ Raises(log[i].st)

\* the position of a role name in the list roles
RoleIndex(name) == CHOOSE k \in 1..Len(roles) : roles[k] = name

\* C29: in the attribute style a role creation that fails is followed by the
\* lookup of the next role of the list, so that every role gets its lookup;
\* no request of the client-scope step or of a later step is sent in that
\* run, and the run ends with exit status 1.
C29_RoleStepContinuation ==
    \A i \in Entries :
        RoleCreationFailed(i) =>
            /\ \A j \in Entries : log[j].step <= 3
            /\ pc \notin {"scope_check", "scope_post", "scope_fetch"}
            /\ pc = "done" => exitCode = 1
            /\ RoleIndex(log[i].key) < Len(roles) =>
                 IF i < Len(log)
                 THEN /\ log[i + 1].op = "GET" /\ log[i + 1].kind = "role"
                      /\ log[i + 1].key = roles[RoleIndex(log[i].key) + 1]
                 ELSE pc = "role_check" \/ loc.interrupted
            /\ (pc = "done" /\ ~loc.interrupted) =>
                 \A k \in 1..Len(roles) :
                     \E j \in Entries :
                         /\ log[j].op = "GET" /\ log[j].kind = "role"
                         /\ log[j].key = roles[k]

C29_Witness ==
    /\ pc = "done" /\ exitCode = 1 /\ ~loc.interrupted
    /\ \E i \in Entries :
        /\ RoleCreationFailed(i) /\ log[i].key = roles[1]
        /\ \E j \in Entries :
            /\ j > i /\ log[j].op = "POST" /\ log[j].kind = "role"
            /\ log[j].st = 201 /\ log[j].key = roles[Len(roles)]

\* C30: in the attribute style, when the lookup of the client, scope or
\* mapper step is answered with an error status or fails in the network, the
\* next request of the run is not the creation request for that resource.
C30_LookupFailureDoesNotCreate ==
    script = "multitenant" =>
        \A i \in Entries :
            (/\ log[i].op = "GET" /\ Raises(log[i].st)
             /\ log[i].kind \in {"client", "scope", "mapper"}
             /\ i < Len(log))
                => ~(log[i + 1].op = "POST" /\ log[i + 1].kind = log[i].kind)

\* C31: in the group style the group taken as existing, and the group the
\* user is added to, is named spooliq-platform exactly; a lookup that lists
\* only groups whose name contains that string is followed by the creation
\* of spooliq-platform.
C31_ExactGroupMatch ==
    script = "groups" =>
        /\ loc.groupId \in {"none", "spooliq-platform"}
        /\ \A i \in Entries :
            /\ (log[i].op = "PUT" /\ log[i].kind = "membership")
                   => log[i].key = "spooliq-platform"
            /\ (/\ log[i].op = "GET" /\ log[i].kind = "group"
                /\ log[i].st = 200
                /\ "spooliq-platform" \notin log[i].names
                /\ i < Len(log))
                   => log[i + 1].op = "POST" /\ log[i + 1].kind = "group"

====
